---- MODULE Spec2Model ----
(***************************************************************************)
(* Event processor of the file-drop bucket.                                *)
(*                                                                         *)
(* The Lambda handler walks the records of one S3 event in order; for     *)
(* each record it checks the origin bucket against BUCKET_CONFIG.name and  *)
(* hands the record to the processor: classification by subfolder, the     *)
(* already-processed guards, optional download + JSON validation, the      *)
(* copy-then-delete renames and the asynchronous invocation of the target  *)
(* Lambda.  Every await of the code is one action of the model: an action  *)
(* runs from the completion of one external call to the issue of the next. *)
(* Object keys, bucket names and messages are strings, handled character   *)
(* by character as the code does.                                          *)
(***************************************************************************)
EXTENDS Integers, Sequences, FiniteSets, TLC

(***************************************************************************)
(* Bounds of the model.                                                    *)
(***************************************************************************)
MaxBatch == 2

MaxClock == 1

(***************************************************************************)
(* String helpers (String.prototype methods used by the code).             *)
(***************************************************************************)
Ch(s, i) == SubSeq(s, i, i)

StartsWith(s, p) == Len(s) >= Len(p) /\ SubSeq(s, 1, Len(p)) = p

EndsWith(s, p) == Len(s) >= Len(p) /\ SubSeq(s, Len(s) - Len(p) + 1, Len(s)) = p

Includes(s, p) == \E i \in 1..(Len(s) - Len(p) + 1) : SubSeq(s, i, i + Len(p) - 1) = p

LastIndexOf(s, c) ==
    IF \E i \in 1..Len(s) : Ch(s, i) = c
    THEN CHOOSE i \in 1..Len(s) : Ch(s, i) = c /\ \A j \in (i+1)..Len(s) : Ch(s, j) # c
    ELSE 0

\* s.split(c).pop(): the part of s after the last occurrence of c
SplitPop(s, c) == SubSeq(s, LastIndexOf(s, c) + 1, Len(s))

IsDigit(c) == c \in {"0", "1", "2", "3", "4", "5", "6", "7", "8", "9"}

AllDigits(s) == \A i \in 1..Len(s) : IsDigit(Ch(s, i))

Digit(n) == SubSeq("0123456789", n + 1, n + 1)

\* String(n).padStart(2, '0') and padStart(3, '0') for the fields of an ISO timestamp
Pad2(n) == Digit((n \div 10) % 10) \o Digit(n % 10)

Pad3(n) == Digit((n \div 100) % 10) \o Pad2(n % 100)

(***************************************************************************)
(* Pure functions of the event processor.                                  *)
(***************************************************************************)

\* the replacement applied to the positions lo..hi of s; the range is halved at each level
RECURSIVE ReplacePlusIn(_, _, _)
ReplacePlusIn(s, lo, hi) ==
    IF lo > hi THEN ""
    ELSE IF lo = hi THEN (IF Ch(s, lo) = "+" THEN " " ELSE Ch(s, lo))
    ELSE ReplacePlusIn(s, lo, (lo + hi) \div 2) \o ReplacePlusIn(s, (lo + hi) \div 2 + 1, hi)

\* key.replace(/\+/g, ' ')
ReplacePlus(s) == ReplacePlusIn(s, 1, Len(s))

\* what position i of s contributes to decodeURIComponent(s): an escape is decoded at its
\* percent sign, and the two characters after a percent sign belong to that escape
DecodePiece(s, i) ==
    IF Ch(s, i) = "%" /\ i + 2 <= Len(s)
    THEN CASE SubSeq(s, i, i + 2) = "%20" -> " "
           [] SubSeq(s, i, i + 2) = "%2B" -> "+"
           [] SubSeq(s, i, i + 2) = "%3A" -> ":"
           [] OTHER -> SubSeq(s, i, i + 2)
    ELSE IF (i > 1 /\ Ch(s, i - 1) = "%" /\ i + 1 <= Len(s))
            \/ (i > 2 /\ Ch(s, i - 2) = "%")
    THEN ""
    ELSE Ch(s, i)

RECURSIVE DecodeIn(_, _, _)
DecodeIn(s, lo, hi) ==
    IF lo > hi THEN ""
    ELSE IF lo = hi THEN DecodePiece(s, lo)
    ELSE DecodeIn(s, lo, (lo + hi) \div 2) \o DecodeIn(s, (lo + hi) \div 2 + 1, hi)

\* decodeURIComponent, for the escapes S3 puts into notification keys
DecodeURIComponent(s) == DecodeIn(s, 1, Len(s))

RECURSIVE EncodeIn(_, _, _)
EncodeIn(s, lo, hi) ==
    IF lo > hi THEN ""
    ELSE IF lo = hi THEN (IF Ch(s, lo) = " " THEN "%20" ELSE Ch(s, lo))
    ELSE EncodeIn(s, lo, (lo + hi) \div 2) \o EncodeIn(s, (lo + hi) \div 2 + 1, hi)

\* encodeURIComponent for the characters of the error reasons
EncodeURIComponent(s) == EncodeIn(s, 1, Len(s))

RECURSIVE EncodeKeyIn(_, _, _)
EncodeKeyIn(k, lo, hi) ==
    IF lo > hi THEN ""
    ELSE IF lo = hi
    THEN CASE Ch(k, lo) = " " -> "+"
           [] Ch(k, lo) = "+" -> "%2B"
           [] Ch(k, lo) = ":" -> "%3A"
           [] OTHER -> Ch(k, lo)
    ELSE EncodeKeyIn(k, lo, (lo + hi) \div 2) \o EncodeKeyIn(k, (lo + hi) \div 2 + 1, hi)

\* the object key as S3 writes it into a notification: URL-encoded, a space as "+"
EncodeKey(k) == EncodeKeyIn(k, 1, Len(k))

\* processRecord: const key = decodeURIComponent(record.s3.object.key.replace(/\+/g, ' '))
DecodeKey(rawKey) == DecodeURIComponent(ReplacePlus(rawKey))

\* milliseconds of the first instant of the model past 2026-02-20T16:57:35.000Z
BaseMs == 999

\* new Date().toISOString() at instant t (milliseconds after the base instant)
ToISOString(t) ==
    "2026-02-20T16:57:" \o Pad2(35 + ((BaseMs + t) \div 1000)) \o "."
        \o Pad3((BaseMs + t) % 1000) \o "Z"

\* /^(full|delta|invalid-json)-\d{4}-\d{2}-\d{2}T[\d:.]+Z\.json$/ applied to what follows the prefix and "-"
StampMatches(r) ==
    /\ Len(r) >= 18
    /\ AllDigits(SubSeq(r, 1, 4)) /\ Ch(r, 5) = "-"
    /\ AllDigits(SubSeq(r, 6, 7)) /\ Ch(r, 8) = "-"
    /\ AllDigits(SubSeq(r, 9, 10)) /\ Ch(r, 11) = "T"
    /\ \A i \in 12..(Len(r) - 6) : IsDigit(Ch(r, i)) \/ Ch(r, i) \in {":", "."}
    /\ EndsWith(r, "Z.json")

PatternPrefixes == {"full", "delta", "invalid-json"}

\* dateBasedPattern.test(filename)
DateBasedPattern(filename) ==
    \E p \in PatternPrefixes :
        /\ StartsWith(filename, p \o "-")
        /\ StampMatches(SubSeq(filename, Len(p) + 2, Len(filename)))

\* key.split('/').pop() || ''
FileNameOf(k) == SplitPop(k, "/")

\* subfolderPath.split('-').pop() || 'data'
PrefixOf(subfolderPath) ==
    IF SplitPop(subfolderPath, "-") = "" THEN "data" ELSE SplitPop(subfolderPath, "-")

GenerateDateBasedFileName(subfolderPath, t) ==
    subfolderPath \o "/" \o PrefixOf(subfolderPath) \o "-" \o ToISOString(t) \o ".json"

\* variant of ErrorKeyOf: the errors folder is a sibling of the route's folder
ErrorKeyOfSibling(subfolderPath, t) ==
    subfolderPath \o "-errors/invalid-json-" \o ToISOString(t) \o ".json"

\* moveToErrorsSubfolder: errorKey
ErrorKeyOf(subfolderPath, t) ==
    subfolderPath \o "/errors/invalid-json-" \o ToISOString(t) \o ".json"

\* moveToErrorsSubfolder: Tagging
ErrorTagging(reason) == "error-reason=" \o EncodeURIComponent(reason)

RenameToJsonExtensionKey(k) == k \o ".json"

\* processRecord: the two skip tests made after classification
InErrorsSubdirectory(k) == Includes(k, "/errors/")

IsAlreadyProcessed(k) == InErrorsSubdirectory(k) \/ DateBasedPattern(FileNameOf(k))

(***************************************************************************)
(* JSON.parse on the object bodies of the model.  A parsed value is a     *)
(* record; Null is what validateJson returns when JSON.parse throws, and   *)
(* also what the JSON text null parses to.                                 *)
(***************************************************************************)
Null == [kind |-> "null", truthy |-> FALSE]

JsonTexts == {"null", "false", "0", "\"\"", "[]", "{}", "{\"rawData\":[]}"}

JsonParse(content) ==
    CASE content = "null"  -> Null
      [] content = "false" -> [kind |-> "boolean", truthy |-> FALSE]
      [] content = "0"     -> [kind |-> "number", truthy |-> FALSE]
      [] content = "\"\""  -> [kind |-> "string", truthy |-> FALSE]
      [] content = "[]"    -> [kind |-> "array", truthy |-> TRUE]
      [] OTHER             -> [kind |-> "object", truthy |-> TRUE]

ValidateJson(content) == IF content \in JsonTexts THEN JsonParse(content) ELSE Null

ValidateJsonStructure(jsonData) == TRUE

\* the Error thrown by the handler on an origin mismatch; an undefined name prints as "undefined"
NameText(name) == IF name = <<>> THEN "undefined" ELSE name[1]

MismatchMessage(eventBucketName, configBucketName) ==
    "Bucket name mismatch: S3 event reports bucket \"" \o eventBucketName \o "\" "
    \o "but Lambda configuration expects \"" \o NameText(configBucketName) \o "\". "
    \o "This indicates a deployment issue where the Lambda's BUCKET_CONFIG environment variable "
    \o "does not match the actual S3 bucket triggering the event."

(***************************************************************************)
(* Inputs: the deployed bucket, the routing tables and the notifications.  *)
(***************************************************************************)
ActualBucket == "fd-dev"

ForeignBucket == "fd-other"

RFull == [path |-> "d-full", objectLifetimeDays |-> 7,
          targetLambdaArn |-> "arn:full", validateArrivals |-> TRUE]

RDelta == [path |-> "d-delta", objectLifetimeDays |-> 3,
           targetLambdaArn |-> "arn:delta", validateArrivals |-> FALSE]

RUp == [path |-> "up", objectLifetimeDays |-> 7,
        targetLambdaArn |-> "arn:up", validateArrivals |-> TRUE]

RUpIn == [path |-> "up/in", objectLifetimeDays |-> 3,
          targetLambdaArn |-> "arn:in", validateArrivals |-> FALSE]

TableA == <<RFull, RDelta, RUp, RUpIn>>

\* the two overlapping routes, listed in the other order
TableB == <<RUpIn, RUp>>

\* the routing table of the deployment context: one subdirectory, marked for validation
TableC == <<RFull>>

\* BUCKET_CONFIG: name is <<n>>, or <<>> when the configuration has no name
Configs ==
    {[name |-> <<ActualBucket>>, subdirectories |-> t] : t \in {TableA, TableB}}
    \cup {[name |-> n, subdirectories |-> TableA] : n \in {<<"fd">>, <<"">>, <<>>}}

\* BucketSubdirectory of the deployment context: the route with its CDK-only field
ContextSubdirectory(r) ==
    [path |-> r.path, objectLifetimeDays |-> r.objectLifetimeDays,
     targetLambdaArn |-> r.targetLambdaArn,
     targetLambdaExecutionRoleArn |-> "role:" \o r.path,
     validateArrivals |-> r.validateArrivals]

\* IContext values of a deployment; BUCKET.name is <<n>>, or <<>> when it is not given
Contexts ==
    {[STACK_ID |-> "fd", TAGS |-> [Landscape |-> "dev"],
      BUCKET |-> [name |-> <<>>,
                  subdirectories |-> [s \in DOMAIN TableC |-> ContextSubdirectory(TableC[s])]]]}

\* getBucketName(context)
GetBucketName(ctx) ==
    IF ctx.BUCKET.name # <<>> /\ ctx.BUCKET.name # <<"">>
    THEN ctx.BUCKET.name[1] \o "-" \o ctx.TAGS.Landscape
    ELSE ctx.STACK_ID \o "-" \o ctx.TAGS.Landscape

\* the value serialised into the environment variable BUCKET_CONFIG of the deployed function;
\* the entry carries the path, the lifetime and the ARN of the route's consumer
RuntimeBucketConfig(ctx) ==
    [name |-> <<GetBucketName(ctx)>>,
     subdirectories |->
        [s \in DOMAIN ctx.BUCKET.subdirectories |->
            [path |-> ctx.BUCKET.subdirectories[s].path,
             objectLifetimeDays |-> ctx.BUCKET.subdirectories[s].objectLifetimeDays,
             targetLambdaArn |-> ctx.BUCKET.subdirectories[s].targetLambdaArn]]]

\* the same value as the construct of src/unnamed/part_002 builds it: the name is BUCKET.name
\* as it stands in the context (JSON.stringify leaves an undefined name out)
RuntimeBucketConfigBaseName(ctx) ==
    [name |-> ctx.BUCKET.name,
     subdirectories |->
        [s \in DOMAIN ctx.BUCKET.subdirectories |->
            [path |-> ctx.BUCKET.subdirectories[s].path,
             objectLifetimeDays |-> ctx.BUCKET.subdirectories[s].objectLifetimeDays,
             targetLambdaArn |-> ctx.BUCKET.subdirectories[s].targetLambdaArn]]]

\* subfolderConfig.validateArrivals as a condition: a missing field is undefined, hence falsy
ValidateArrivals(sub) == IF "validateArrivals" \in DOMAIN sub THEN sub.validateArrivals ELSE FALSE

MalformedBody == "{this is not: valid JSON syntax,}"

\* the objects the producers have uploaded: notification key and body
Uploads ==
    { [rawKey |-> "up.json", body |-> "{}"],
      [rawKey |-> "d-full/a.json", body |-> "{}"],
      [rawKey |-> "d-full/b.json", body |-> MalformedBody],
      [rawKey |-> "d-full/n.json", body |-> "null"],
      [rawKey |-> "d-full/e.json", body |-> ""],
      [rawKey |-> "d-full/full-2026-02-19T15:30:45.123Z.json", body |-> "{}"],
      [rawKey |-> "d-delta/errors/old.json", body |-> MalformedBody],
      [rawKey |-> "d-full/in/errors/x.json", body |-> "{}"],
      [rawKey |-> "d-delta/my+f", body |-> MalformedBody],
      [rawKey |-> "up/in/y.json", body |-> "{\"rawData\":[]}"] }

\* S3EventRecord: record.s3.bucket.name and record.s3.object.key
Arrivals ==
    {[bucket |-> ActualBucket, key |-> u.rawKey] : u \in Uploads}
    \cup {[bucket |-> ForeignBucket, key |-> "d-full/a.json"]}

Events == UNION {[1..n -> Arrivals] : n \in 1..MaxBatch}

InitialObjects ==
    [k \in {DecodeKey(u.rawKey) : u \in Uploads} |->
        [body |-> (CHOOSE u \in Uploads : DecodeKey(u.rawKey) = k).body, tagging |-> ""]]

(***************************************************************************)
(* State.                                                                  *)
(***************************************************************************)
VARIABLES
    context,        \* <<c>> when the function was deployed from the context c, <<>> when
                    \* BUCKET_CONFIG was set directly
    config,         \* BUCKET_CONFIG, parsed once at module load
    event,          \* event.Records of the invocation
    objects,        \* contents of the bucket: key -> [body, tagging]
    clock,          \* the instant new Date() last returned, in ms after the base instant
    idx,            \* position of the handler's for loop in event.Records
    hpc,            \* handler: "loop", "await" (awaiting the processor), "done", "raised"
    tasks,          \* per record: the frame of its processRecord call
    calls,          \* completed S3 and Lambda calls, in order of completion
    consoleErrors,  \* console.error lines
    processed,      \* records handed to the processor, in order
    invocations,    \* accepted InvokeCommand requests
    consumer,       \* per accepted request: "queued", then "succeeded" or "failed"
    delivered,      \* number of notifications of the processor's own copies handled so far
    batch           \* number of records of event that are the event.Records of the handler's
                    \* invocation; a record after them is the notification handled by a
                    \* concurrently running invocation

vars == <<context, config, event, objects, clock, idx, hpc, tasks, calls, consoleErrors,
          processed, invocations, consumer, delivered, batch>>

IdleTask == [pc |-> "idle", key |-> "", sub |-> 0, site |-> "", oldKey |-> "",
             newKey |-> "", reason |-> "", processedAt |-> ""]

Init ==
    /\ \/ context = <<>> /\ config \in Configs
       \/ \E c \in Contexts :
            /\ context = <<c>>
            /\ config \in {RuntimeBucketConfig(c), RuntimeBucketConfigBaseName(c)}
    /\ event \in Events
    /\ objects = InitialObjects
    /\ clock = 0
    /\ idx = 1
    /\ hpc = "loop"
    /\ tasks = [i \in DOMAIN event |-> IdleTask]
    /\ calls = <<>>
    /\ consoleErrors = <<>>
    /\ processed = <<>>
    /\ invocations = <<>>
    /\ consumer = <<>>
    /\ delivered = 0
    /\ batch = Len(event)

(***************************************************************************)
(* Classification.                                                         *)
(***************************************************************************)
\* variant of FindFrom: the path is tested as a prefix without the separating slash
RECURSIVE FindFromNoSlash(_, _, _)
FindFromNoSlash(subdirectories, k, i) ==
    IF i > Len(subdirectories) THEN 0
    ELSE IF StartsWith(k, subdirectories[i].path) THEN i
    ELSE FindFromNoSlash(subdirectories, k, i + 1)

RECURSIVE FindFrom(_, _, _)
FindFrom(subdirectories, k, i) ==
    IF i > Len(subdirectories) THEN 0
    ELSE IF StartsWith(k, subdirectories[i].path \o "/") THEN i
    ELSE FindFrom(subdirectories, k, i + 1)

\* variant of FindSubfolderConfig: the last matching entry wins
FindSubfolderConfigLast(k) ==
    LET m == {i \in 1..Len(config.subdirectories) :
                StartsWith(k, config.subdirectories[i].path \o "/")}
    IN  IF m = {} THEN 0 ELSE CHOOSE i \in m : \A j \in m : j <= i

\* index of the matching subdirectory in BUCKET_CONFIG.subdirectories, 0 for null
FindSubfolderConfig(k) == FindFrom(config.subdirectories, k, 1)

PathOf(f) == config.subdirectories[f.sub].path

\* createLifecycleRules: the prefix of the expiration rule of a subdirectory
LifecycleRulePrefix(subdir) == subdir.path \o "/"

(***************************************************************************)
(* processRecord, cut at its awaits.  A frame is the state of one call.    *)
(***************************************************************************)
Settled(f) == f.pc \in {"returned", "thrown"}

\* lines 114-117: generateDateBasedFileName, then renameObject(bucket, finalKey, newKey)
DateFrame(f, finalKey, now) ==
    [f EXCEPT !.pc = "copy", !.site = "date", !.oldKey = finalKey,
              !.newKey = GenerateDateBasedFileName(PathOf(f), now)]

\* variant of RenameFrame: the key is renamed to the date-based key at once
RenameFrameDirect(f, now) == DateFrame(f, f.key, now)

\* lines 102-112: renameToJsonExtension when the key lacks .json
RenameFrame(f, now) ==
    IF ~EndsWith(f.key, ".json")
    THEN [f EXCEPT !.pc = "copy", !.site = "ext", !.oldKey = f.key,
                   !.newKey = RenameToJsonExtensionKey(f.key)]
    ELSE DateFrame(f, f.key, now)

\* moveToErrorsSubfolder up to its copy
ErrorFrame(f, reason, now) ==
    [f EXCEPT !.pc = "errCopy", !.oldKey = f.key, !.reason = reason,
              !.newKey = ErrorKeyOf(PathOf(f), now)]

\* variant of ValidationEnabled: the content of every arrival is validated
ValidationEnabledAlways(s) == TRUE

\* if (subfolderConfig.validateArrivals)
ValidationEnabled(s) == ValidateArrivals(config.subdirectories[s])

\* variant of StartFrame: the already-processed tests come after the validation branch
StartFrameGuardLate(k, now) ==
    LET s == FindSubfolderConfig(k)
        f == [IdleTask EXCEPT !.key = k, !.sub = s]
    IN  IF s = 0 THEN [f EXCEPT !.pc = "returned"]
        ELSE IF ValidationEnabled(s) THEN [f EXCEPT !.pc = "get"]
        ELSE IF IsAlreadyProcessed(k) THEN [f EXCEPT !.pc = "returned"]
        ELSE RenameFrame(f, now)

\* processRecord from its entry to its first await or return
StartFrame(k, now) ==
    LET s == FindSubfolderConfig(k)
        f == [IdleTask EXCEPT !.key = k, !.sub = s]
    IN  IF s = 0 THEN [f EXCEPT !.pc = "returned"]
        ELSE IF IsAlreadyProcessed(k) THEN [f EXCEPT !.pc = "returned"]
        ELSE IF ValidationEnabled(s) THEN [f EXCEPT !.pc = "get"]
        ELSE RenameFrame(f, now)

\* variant of ValidatedFrame: the result of the validation is not acted upon
ValidatedFrameLenient(f, objectContent, now) == RenameFrame(f, now)

\* processRecord after getObjectContent has returned objectContent
ValidatedFrame(f, objectContent, now) ==
    IF ~ValidateJson(objectContent).truthy THEN ErrorFrame(f, "Invalid JSON format", now)
    ELSE IF ~ValidateJsonStructure(ValidateJson(objectContent))
         THEN ErrorFrame(f, "Invalid JSON structure", now)
    ELSE RenameFrame(f, now)

\* variant of UnretrievedFrame: an object that cannot be retrieved is moved to the errors path
UnretrievedFrameMoved(f, now) == ErrorFrame(f, "Invalid JSON format", now)

\* lines 76-80: if (!objectContent) { console.error(...); return; }
UnretrievedFrame(f, now) == [f EXCEPT !.pc = "returned"]

\* the frame was built with a reading of the clock (new Date())
ReadsClock(f) == f.pc \in {"errCopy", "invoke"} \/ (f.pc = "copy" /\ f.site = "date")

\* new Date() returns now: time does not run backwards, and passes only where it is read
Elapse(f, now) ==
    /\ now \in clock..MaxClock
    /\ ~ReadsClock(f) => now = clock
    /\ clock' = now

\* a completed call: out is "ok", "throw", or for a download "nobody" (response without Body)
Call(i, op, src, dst, out) ==
    [run |-> delivered, rec |-> i, op |-> op, src |-> src, dst |-> dst, out |-> out]

Outcome(ok) == IF ok THEN "ok" ELSE "throw"

Logged(i, text, error) == [rec |-> i, text |-> text, error |-> error]

\* what the SDK throws on a failed request
SdkError == "ServiceException"

PutObject(k, o) == [x \in DOMAIN objects \cup {k} |-> IF x = k THEN o ELSE objects[x]]

RemoveObject(k) == [x \in DOMAIN objects \ {k} |-> objects[x]]

(***************************************************************************)
(* Actions of the processor: completion of each external call.             *)
(***************************************************************************)

\* getObjectContent: GetObjectCommand completes
GetObjectDone(i) ==
    LET f == tasks[i] IN
    /\ f.pc = "get"
    /\ \E r \in {"throw", "nobody", "body"}, now \in clock..MaxClock :
        /\ r # "throw" => f.key \in DOMAIN objects
        /\ calls' = Append(calls, Call(i, "get", f.key, "", IF r = "body" THEN "ok" ELSE r))
        /\ LET objectContent == IF r = "body" THEN objects[f.key].body ELSE ""
               retrieved == r = "body" /\ objectContent # ""
           IN /\ tasks' = [tasks EXCEPT ![i] =
                    IF retrieved THEN ValidatedFrame(f, objectContent, now)
                    ELSE UnretrievedFrame(f, now)]
              /\ Elapse(tasks'[i], now)
              /\ consoleErrors' = consoleErrors
                    \o (IF r = "throw"
                        THEN <<Logged(i, "Error retrieving object " \o f.key \o ":", SdkError)>>
                        ELSE <<>>)
                    \o (IF ~retrieved
                        THEN <<Logged(i, "Failed to retrieve object content for: " \o f.key, "")>>
                        ELSE IF ~ValidateJson(objectContent).truthy
                        THEN <<Logged(i, "Invalid JSON in object: " \o f.key, "")>>
                        ELSE IF ~ValidateJsonStructure(ValidateJson(objectContent))
                        THEN <<Logged(i, "JSON structure validation failed for: " \o f.key, "")>>
                        ELSE <<>>)
    /\ UNCHANGED <<batch, delivered, consumer, context, config, event, objects, idx, hpc, processed, invocations>>

\* variant of RenameStepPc: the failure of a step is swallowed and the rename goes on
RenameStepPcSwallow(ok, nextPc) == nextPc

\* renameObject: a step that threw is caught and the function returns false; processRecord
\* logs and returns.  A step that succeeded goes on to nextPc.
RenameStepPc(ok, nextPc) == IF ok THEN nextPc ELSE "returned"

\* renameObject: CopyObjectCommand completes
CopyDone(i) ==
    LET f == tasks[i] IN
    /\ f.pc = "copy"
    /\ \E ok \in BOOLEAN :
        /\ ok => f.oldKey \in DOMAIN objects
        /\ ok => f.oldKey # f.newKey   \* S3 refuses to copy an object onto itself unchanged
        /\ calls' = Append(calls, Call(i, "copy", f.oldKey, f.newKey, Outcome(ok)))
        /\ IF ok
           THEN /\ objects' = PutObject(f.newKey, objects[f.oldKey])
                /\ UNCHANGED consoleErrors
           ELSE /\ UNCHANGED objects
                /\ consoleErrors' = consoleErrors \o
                     << Logged(i, "Error renaming object from " \o f.oldKey \o " to " \o f.newKey \o ":", SdkError),
                        Logged(i, IF f.site = "ext" THEN "Failed to rename object: " \o f.key
                                  ELSE "Failed to rename object to date-based filename", "") >>
        /\ tasks' = [tasks EXCEPT ![i].pc = RenameStepPc(ok, "delete")]
    /\ UNCHANGED <<batch, delivered, consumer, context, config, event, clock, idx, hpc, processed, invocations>>

\* renameObject: DeleteObjectCommand completes; on success processRecord goes on
DeleteDone(i) ==
    LET f == tasks[i] IN
    /\ f.pc = "delete"
    /\ \E ok \in BOOLEAN, now \in clock..MaxClock :
        /\ calls' = Append(calls, Call(i, "delete", f.oldKey, "", Outcome(ok)))
        /\ IF ok
           THEN /\ objects' = RemoveObject(f.oldKey)
                /\ UNCHANGED consoleErrors
           ELSE /\ UNCHANGED objects
                /\ consoleErrors' = consoleErrors \o
                     << Logged(i, "Error renaming object from " \o f.oldKey \o " to " \o f.newKey \o ":", SdkError),
                        Logged(i, IF f.site = "ext" THEN "Failed to rename object: " \o f.key
                                  ELSE "Failed to rename object to date-based filename", "") >>
        /\ tasks' = [tasks EXCEPT ![i] =
              IF RenameStepPc(ok, "next") = "returned" THEN [f EXCEPT !.pc = "returned"]
              ELSE IF f.site = "ext" THEN DateFrame(f, f.newKey, now)
              ELSE [f EXCEPT !.pc = "invoke", !.processedAt = ToISOString(now)]]
        /\ Elapse(tasks'[i], now)
    /\ UNCHANGED <<batch, delivered, consumer, context, config, event, idx, hpc, processed, invocations>>

\* variant of ErrorStepPc: a copy that failed is followed by the delete all the same
ErrorStepPcSwallow(ok, nextPc) == nextPc

\* moveToErrorsSubfolder: a step that threw is caught and logged, and the function returns
ErrorStepPc(ok, nextPc) == IF ok THEN nextPc ELSE "returned"

\* moveToErrorsSubfolder: CopyObjectCommand with TaggingDirective REPLACE completes
ErrCopyDone(i) ==
    LET f == tasks[i] IN
    /\ f.pc = "errCopy"
    /\ \E ok \in BOOLEAN :
        /\ ok => f.oldKey \in DOMAIN objects
        /\ calls' = Append(calls, Call(i, "copy", f.oldKey, f.newKey, Outcome(ok)))
        /\ IF ok
           THEN /\ objects' = PutObject(f.newKey,
                        [body |-> objects[f.oldKey].body, tagging |-> ErrorTagging(f.reason)])
                /\ UNCHANGED consoleErrors
           ELSE /\ UNCHANGED objects
                /\ consoleErrors' = Append(consoleErrors,
                        Logged(i, "Error moving " \o f.key \o " to errors subfolder:", SdkError))
        /\ tasks' = [tasks EXCEPT ![i].pc = ErrorStepPc(ok, "errDelete")]
    /\ UNCHANGED <<batch, delivered, consumer, context, config, event, clock, idx, hpc, processed, invocations>>

\* moveToErrorsSubfolder: DeleteObjectCommand completes; processRecord returns
ErrDeleteDone(i) ==
    LET f == tasks[i] IN
    /\ f.pc = "errDelete"
    /\ \E ok \in BOOLEAN :
        /\ calls' = Append(calls, Call(i, "delete", f.oldKey, "", Outcome(ok)))
        /\ objects' = IF ok THEN RemoveObject(f.oldKey) ELSE objects
        /\ consoleErrors' = IF ok THEN consoleErrors
                            ELSE Append(consoleErrors,
                                Logged(i, "Error moving " \o f.key \o " to errors subfolder:", SdkError))
    /\ tasks' = [tasks EXCEPT ![i].pc = "returned"]
    /\ UNCHANGED <<batch, delivered, consumer, context, config, event, clock, idx, hpc, processed, invocations>>

\* invokeTargetLambda: the payload built before the InvokeCommand is sent
Payload(bucket, f) ==
    [s3Path |-> "s3://" \o bucket \o "/" \o f.newKey,
     bucket |-> bucket,
     key |-> f.newKey,
     processingMetadata |-> [processedAt |-> f.processedAt, processorVersion |-> "1.0.0"]]

\* variant of InvocationType: the call returns the consumer's response
InvocationTypeRequestResponse == "RequestResponse"

\* invokeTargetLambda: InvocationType of the InvokeCommand, async invocation
InvocationType == "Event"

\* variant of InvokeOutcomePc: the failure of the request is logged and not thrown again
InvokeOutcomePcSwallow(ok) == "returned"

\* invokeTargetLambda: resolves when the request was accepted; its catch block logs and rethrows
InvokeOutcomePc(ok) == IF ok THEN "returned" ELSE "thrown"

\* invokeTargetLambda: InvokeCommand (InvocationType Event) is accepted or fails
InvokeDone(i) ==
    LET f == tasks[i]
        arn == config.subdirectories[f.sub].targetLambdaArn IN
    /\ f.pc = "invoke"
    /\ \E ok \in BOOLEAN :
        /\ calls' = Append(calls, Call(i, "invoke", f.newKey, arn, Outcome(ok)))
        /\ IF ok
           THEN /\ invocations' = Append(invocations,
                        [rec |-> i, FunctionName |-> arn, Payload |-> Payload(event[i].bucket, f)])
                /\ consumer' = Append(consumer, "queued")
                /\ UNCHANGED consoleErrors
           ELSE /\ UNCHANGED <<invocations, consumer>>
                /\ consoleErrors' = Append(consoleErrors,
                        Logged(i, "Error invoking target Lambda (" \o arn \o "):", SdkError))
        /\ tasks' = [tasks EXCEPT ![i].pc =
              IF ok /\ InvocationType # "Event" THEN "respond" ELSE InvokeOutcomePc(ok)]
    /\ UNCHANGED <<batch, delivered, context, config, event, objects, clock, idx, hpc, processed>>

\* the consumer function runs the queued request n to its end, on its own schedule; a caller
\* that asked for the response (InvocationType other than Event) resumes with it
ConsumerRun(n) ==
    /\ n \in DOMAIN consumer
    /\ consumer[n] = "queued"
    /\ \E ok \in BOOLEAN :
        /\ consumer' = [consumer EXCEPT ![n] = IF ok THEN "succeeded" ELSE "failed"]
        /\ tasks' = IF InvocationType # "Event" /\ tasks[invocations[n].rec].pc = "respond"
                    THEN [tasks EXCEPT ![invocations[n].rec].pc = InvokeOutcomePc(ok)]
                    ELSE tasks
    /\ UNCHANGED <<batch, delivered, context, config, event, objects, clock, idx, hpc, calls,
                   consoleErrors, processed, invocations>>

(***************************************************************************)
(* Actions of the handler.                                                 *)
(***************************************************************************)

\* variant of CatchBlock: the error is logged and the same record is tried again
CatchBlockRetry(i, error) ==
    /\ consoleErrors' = Append(consoleErrors, Logged(i, "Error processing record:", error))
    /\ idx' = idx
    /\ hpc' = "loop"

\* variant of CatchBlock: the error is logged and thrown again, out of the handler
CatchBlockRethrow(i, error) ==
    /\ consoleErrors' = Append(consoleErrors, Logged(i, "Error processing record:", error))
    /\ idx' = idx
    /\ hpc' = "raised"

\* catch (error) { console.error('Error processing record:', error); } and the loop goes on
CatchBlock(i, error) ==
    /\ consoleErrors' = Append(consoleErrors, Logged(i, "Error processing record:", error))
    /\ idx' = idx + 1
    /\ hpc' = "loop"

\* variant of OriginMismatch: the test is skipped when the configuration has no usable name
OriginMismatchIfNamed(eventBucketName, configBucketName) ==
    /\ configBucketName # <<>>
    /\ configBucketName # <<"">>
    /\ <<eventBucketName>> # configBucketName

\* the handler's origin test
OriginMismatch(eventBucketName, configBucketName) == <<eventBucketName>> # configBucketName

\* for (const record of event.Records): origin check, then processor.process() up to its first await
HandlerStep ==
    /\ hpc = "loop"
    /\ idx <= batch
    /\ IF OriginMismatch(event[idx].bucket, config.name)
       THEN /\ CatchBlock(idx, MismatchMessage(event[idx].bucket, config.name))
            /\ UNCHANGED <<tasks, processed, clock>>
       ELSE /\ processed' = Append(processed, idx)
            /\ \E now \in clock..MaxClock :
                /\ tasks' = [tasks EXCEPT ![idx] = StartFrame(DecodeKey(event[idx].key), now)]
                /\ Elapse(tasks'[idx], now)
            /\ hpc' = "await"
            /\ UNCHANGED <<idx, consoleErrors>>
    /\ UNCHANGED <<batch, delivered, consumer, context, config, event, objects, calls, invocations>>

\* variant of AwaitOver: the call is not awaited
AwaitOverAtOnce(i) == TRUE

\* await processor.process() is over when the call has settled
AwaitOver(i) == Settled(tasks[i])

\* the await resumes: the result is logged, or the rejection is caught
HandlerResume ==
    /\ hpc = "await"
    /\ AwaitOver(idx)
    /\ IF tasks[idx].pc = "thrown"
       THEN CatchBlock(idx, SdkError)
       ELSE /\ idx' = idx + 1
            /\ hpc' = "loop"
            /\ UNCHANGED consoleErrors
    /\ UNCHANGED <<batch, delivered, consumer, context, config, event, objects, clock, tasks, calls, processed, invocations>>

\* the loop is exhausted: the handler's promise resolves
HandlerReturn ==
    /\ hpc = "loop"
    /\ idx > batch
    /\ hpc' = "done"
    /\ UNCHANGED <<batch, delivered, consumer, context, config, event, objects, clock, idx, tasks, calls, consoleErrors,
                   processed, invocations>>

Next ==
    \/ HandlerStep
    \/ HandlerResume
    \/ HandlerReturn
    \/ \E i \in DOMAIN tasks : GetObjectDone(i)
    \/ \E i \in DOMAIN tasks : CopyDone(i)
    \/ \E i \in DOMAIN tasks : DeleteDone(i)
    \/ \E i \in DOMAIN tasks : ErrCopyDone(i)
    \/ \E i \in DOMAIN tasks : ErrDeleteDone(i)
    \/ \E i \in DOMAIN tasks : InvokeDone(i)

Spec == Init /\ [][Next]_vars

\* the handler together with the consumers of the requests it has submitted
NextAsync ==
    \/ Next
    \/ \E n \in DOMAIN consumer : ConsumerRun(n)

SpecAsync == Init /\ [][NextAsync]_vars

\* the objects the processor has created, in order: each one makes S3 send a notification
Created == SelectSeq(calls, LAMBDA c : c.op = "copy" /\ c.out = "ok")

\* S3 delivers the next notification of an object the processor created: a new run of the handler
Deliver ==
    /\ hpc = "done"
    /\ delivered < Len(Created)
    /\ delivered' = delivered + 1
    /\ event' = <<[bucket |-> ActualBucket, key |-> EncodeKey(Created[delivered + 1].dst)]>>
    /\ idx' = 1
    /\ hpc' = "loop"
    /\ tasks' = <<IdleTask>>
    /\ batch' = 1
    /\ UNCHANGED <<context, config, objects, clock, calls, consoleErrors, processed,
                   invocations, consumer>>

\* one upload to the deployed bucket, then the notifications that its processing brings about
InitLoop ==
    /\ Init
    /\ Len(event) = 1
    /\ ~OriginMismatch(event[1].bucket, config.name)

NextLoop ==
    \/ Next
    \/ Deliver

SpecLoop == InitLoop /\ [][NextLoop]_vars

\* the n-th call created the intermediate "<key>.json" object of renameToJsonExtension
ExtensionCopyAt(n) ==
    /\ calls[n].op = "copy" /\ calls[n].out = "ok"
    /\ calls[n].dst = RenameToJsonExtensionKey(calls[n].src)

\* S3 sends the notification of the intermediate "<key>.json" object to a second invocation
\* of the handler, which runs while the first one goes on: origin check, then processRecord
\* up to its first await
ConcurrentStart ==
    /\ Len(event) = batch
    /\ \E n \in DOMAIN calls :
        /\ ExtensionCopyAt(n)
        /\ LET record == [bucket |-> event[calls[n].rec].bucket, key |-> EncodeKey(calls[n].dst)]
               i == Len(event) + 1
           IN /\ event' = Append(event, record)
              /\ IF OriginMismatch(record.bucket, config.name)
                 THEN /\ tasks' = Append(tasks, IdleTask)
                      /\ consoleErrors' = Append(consoleErrors,
                            Logged(i, "Error processing record:",
                                   MismatchMessage(record.bucket, config.name)))
                      /\ UNCHANGED <<processed, clock>>
                 ELSE /\ processed' = Append(processed, i)
                      /\ \E now \in clock..MaxClock :
                            /\ tasks' = Append(tasks, StartFrame(DecodeKey(record.key), now))
                            /\ Elapse(tasks'[i], now)
                      /\ UNCHANGED consoleErrors
    /\ UNCHANGED <<batch, delivered, consumer, context, config, objects, idx, hpc, calls,
                   invocations>>

\* the await of the second invocation resumes with a rejection: its catch block logs it
ConcurrentCatch ==
    /\ Len(event) > batch
    /\ tasks[Len(event)].pc = "thrown"
    /\ \A e \in DOMAIN consoleErrors :
        ~(consoleErrors[e].rec = Len(event) /\ consoleErrors[e].text = "Error processing record:")
    /\ consoleErrors' = Append(consoleErrors,
            Logged(Len(event), "Error processing record:", SdkError))
    /\ UNCHANGED <<batch, delivered, consumer, context, config, event, objects, clock, idx, hpc,
                   tasks, calls, processed, invocations>>

NextRace ==
    \/ Next
    \/ ConcurrentStart
    \/ ConcurrentCatch

\* one upload, its handler invocation, and the invocation its intermediate object brings about
SpecRace == InitLoop /\ [][NextRace]_vars

(***************************************************************************)
(* Vocabulary of the properties.                                           *)
(***************************************************************************)
Records == DOMAIN event

\* the decoded keys of the uploads, and what the string tests below give for them; these
\* tables are computed once, the tests are made directly for every other key
UploadKeyOf == [r \in {u.rawKey : u \in Uploads} |-> DecodeKey(r)]

UploadKeys == {UploadKeyOf[r] : r \in DOMAIN UploadKeyOf}

RoutePaths == {TableA[s].path : s \in DOMAIN TableA}

UploadsUnder ==
    [p \in RoutePaths |->
        [rest \in {"/", "/errors/"} |-> {k \in UploadKeys : StartsWith(k, p \o rest)}]]

UploadsSkipped == {k \in UploadKeys : IsAlreadyProcessed(k)}

UploadsPatterned == {k \in UploadKeys : DateBasedPattern(FileNameOf(k))}

KeyOf(i) ==
    IF event[i].key \in DOMAIN UploadKeyOf THEN UploadKeyOf[event[i].key]
    ELSE DecodeKey(event[i].key)

\* the filename of k matches the processed-naming pattern
Patterned(k) == IF k \in UploadKeys THEN k \in UploadsPatterned ELSE DateBasedPattern(FileNameOf(k))

\* the key passes for already processed
Skipped(k) == IF k \in UploadKeys THEN k \in UploadsSkipped ELSE IsAlreadyProcessed(k)

CallsOf(i) == SelectSeq(calls, LAMBDA c : c.rec = i)

ErrorsOf(i) == SelectSeq(consoleErrors, LAMBDA e : e.rec = i /\ e.text = "Error processing record:")

InvocationsOf(i) == SelectSeq(invocations, LAMBDA v : v.rec = i)

Occurrences(seq, x) == Cardinality({n \in DOMAIN seq : seq[n] = x})

\* the notification does not come from the configured bucket
Mismatched(i) == config.name = <<>> \/ config.name[1] # event[i].bucket

\* the handler is past record i
Visited(i) == i < idx

\* record i failed: its origin check threw, or its processing threw
Failed(i) == Visited(i) /\ (Mismatched(i) \/ tasks[i].pc = "thrown")

(***************************************************************************)
(* C1  Batch isolation.  The handler never raises; when it has returned,   *)
(* every record of the batch has been visited, every record from the       *)
(* configured bucket has been handed to the processor exactly once and has *)
(* run to its end, whatever happened to the records before it, and no      *)
(* mismatched record has been handed over.  For a batch of one mismatched  *)
(* and one valid record, processing is started exactly once.               *)
(***************************************************************************)
C1_BatchIsolation ==
    /\ hpc # "raised"
    /\ hpc = "done" =>
        /\ idx = Len(event) + 1
        /\ \A i \in Records :
            IF Mismatched(i)
            THEN Occurrences(processed, i) = 0
            ELSE Occurrences(processed, i) = 1 /\ Settled(tasks[i])
        /\ Len(processed) = Cardinality({i \in Records : ~Mismatched(i)})

\* a mismatched record and a record whose dispatch failed, each followed by a record that was dispatched
C1_Witness ==
    /\ hpc = "done"
    /\ Len(event) = 2
    /\ Failed(1)
    /\ processed = IF Mismatched(1) THEN <<2>> ELSE <<1, 2>>
    /\ Len(InvocationsOf(2)) = 1

(***************************************************************************)
(* C2  Origin check.  A record whose bucket name differs from the          *)
(* configured name (a missing or empty configured name included) is never  *)
(* handed to the processor: no classification, no S3 or Lambda call; once  *)
(* the handler is past it, exactly one error is logged for it, and the     *)
(* message contains the reported and the expected name.  A record whose    *)
(* bucket name equals the configured name is handed to the processor.      *)
(***************************************************************************)
C2_OriginCheck ==
    \A i \in Records :
        IF Mismatched(i)
        THEN /\ tasks[i] = IdleTask
             /\ Occurrences(processed, i) = 0
             /\ CallsOf(i) = <<>>
             /\ InvocationsOf(i) = <<>>
             /\ Visited(i) =>
                  /\ Len(ErrorsOf(i)) = 1
                  /\ Includes(ErrorsOf(i)[1].error, "Bucket name mismatch")
                  /\ Includes(ErrorsOf(i)[1].error, "\"" \o event[i].bucket \o "\"")
                  /\ Includes(ErrorsOf(i)[1].error, "\"" \o NameText(config.name) \o "\"")
        ELSE Visited(i) => Occurrences(processed, i) = 1 /\ tasks[i].pc # "idle"

\* a batch with a mismatched and a matching record, both visited
C2_Witness ==
    /\ \E i \in Records : Visited(i) /\ Mismatched(i) /\ Len(ErrorsOf(i)) = 1
    /\ \E j \in Records : Visited(j) /\ ~Mismatched(j) /\ Occurrences(processed, j) = 1

\* some configured route path, followed by rest, is a prefix of k
UnderRoute(k, rest) ==
    \E r \in 1..Len(config.subdirectories) :
        LET p == config.subdirectories[r].path IN
        IF k \in UploadKeys /\ p \in RoutePaths /\ rest \in {"/", "/errors/"}
        THEN k \in UploadsUnder[p][rest]
        ELSE StartsWith(k, p \o rest)

\* the record was handed to the processor
Started(i) == tasks[i].pc # "idle"

\* the body uploaded at key k
BodyOf(k) == InitialObjects[k].body

(***************************************************************************)
(* C3  Anti-recursion guard.  A record whose key lies under a configured   *)
(* route and whose filename matches the processed-naming pattern, or whose *)
(* key lies under the errors/ subpath of a route, is skipped: its          *)
(* processing returns with no download, copy, delete or invoke call, hence *)
(* before any validation or relocation step.                               *)
(***************************************************************************)
C3_AntiRecursion ==
    \A i \in Records :
        (/\ Started(i)
         /\ \/ UnderRoute(KeyOf(i), "/") /\ Patterned(KeyOf(i))
            \/ UnderRoute(KeyOf(i), "/errors/"))
        => /\ tasks[i].pc = "returned"
           /\ CallsOf(i) = <<>>
           /\ InvocationsOf(i) = <<>>

\* a batch of a processed-pattern key and an errors/ key, both handled
C3_Witness ==
    /\ hpc = "done"
    /\ \E i \in Records : Started(i) /\ Patterned(KeyOf(i))
                          /\ ~UnderRoute(KeyOf(i), "/errors/")
    /\ \E j \in Records : Started(j) /\ UnderRoute(KeyOf(j), "/errors/")
                          /\ ~Patterned(KeyOf(j))

(***************************************************************************)
(* C4  Naming agreement.  The key generated by the normalize-and-stamp     *)
(* step lies under the path of the route the arrival was classified into   *)
(* and is recognised by the already-processed check.                       *)
(***************************************************************************)
C4_NamingAgreement ==
    \A i \in Records :
        tasks[i].site = "date" =>
            /\ StartsWith(tasks[i].newKey, PathOf(tasks[i]) \o "/")
            /\ IsAlreadyProcessed(tasks[i].newKey)

\* every call made for record i succeeded
AllOk(i) == \A n \in DOMAIN calls : calls[n].rec = i => calls[n].out = "ok"

\* record i lies on a route with validateArrivals
Validating(i) == tasks[i].sub # 0 /\ ValidateArrivals(config.subdirectories[tasks[i].sub])

\* the download of record i returned the object's content
Downloaded(i) ==
    \E n \in DOMAIN calls : calls[n].rec = i /\ calls[n].op = "get" /\ calls[n].out = "ok"

\* the body is not a JSON text
Unparseable(body) == body \notin JsonTexts

\* the processing of record i has just ended and the handler has not gone on
JustSettled(i) == hpc = "await" /\ idx = i /\ Settled(tasks[i])

\* the tag set names an error reason that mentions invalid JSON
MentionsInvalidJson(tagging) ==
    /\ StartsWith(tagging, "error-reason=")
    /\ Includes(DecodeURIComponent(SubSeq(tagging, 14, Len(tagging))), "Invalid JSON")

C6_RoundTrip ==
    \A i \in Records :
        (JustSettled(i) /\ Validating(i) /\ Downloaded(i) /\ AllOk(i)
            /\ ValidateJson(BodyOf(tasks[i].key)).truthy)
        => LET f == tasks[i]
               created == {CallsOf(i)[n].dst : n \in {m \in DOMAIN CallsOf(i) : CallsOf(i)[m].op = "copy"}}
           IN  /\ created \cap DOMAIN objects = {f.newKey}
               /\ objects[f.newKey].body = BodyOf(f.key)
               /\ DateBasedPattern(FileNameOf(f.newKey))
               /\ f.key \notin DOMAIN objects
               /\ Len(InvocationsOf(i)) = 1
               /\ InvocationsOf(i)[1].Payload.key = f.newKey
               /\ InvocationsOf(i)[1].Payload.s3Path
                    = "s3://" \o event[i].bucket \o "/" \o f.newKey

\* record j repeats the notification of the earlier record i, whose processing removed the original key
Refed(i, j) ==
    /\ i < j
    /\ event[i] = event[j]
    /\ Started(i) /\ Started(j)
    /\ \E n \in DOMAIN CallsOf(i) :
        /\ CallsOf(i)[n].op = "delete"
        /\ CallsOf(i)[n].src = tasks[i].key
        /\ CallsOf(i)[n].out = "ok"

(***************************************************************************)
(* C7  Idempotence.  When a notification is fed again after the object     *)
(* was moved away from its original key (to a processed key, to the        *)
(* errors path, or to the .json name), the second processing submits no    *)
(* dispatch and creates no object: none of its copies succeeds and it      *)
(* issues no invocation.                                                   *)
(***************************************************************************)
C7_Idempotence ==
    \A i, j \in Records :
        Refed(i, j) =>
            /\ InvocationsOf(j) = <<>>
            /\ \A n \in DOMAIN CallsOf(j) :
                /\ CallsOf(j)[n].op # "invoke"
                /\ CallsOf(j)[n].op \in {"copy", "get"} => CallsOf(j)[n].out = "throw"
            /\ tasks[j].pc \notin {"delete", "errDelete", "invoke", "thrown"}

\* the repeated notification has been processed to its end, after a dispatch for the first one
C7_Witness ==
    /\ hpc = "done"
    /\ Len(event) = 2
    /\ Refed(1, 2)
    /\ Len(InvocationsOf(1)) = 1
    /\ CallsOf(2) # <<>>

(***************************************************************************)
(* C8  Unrouted keys.  A record whose key does not start with "<path>/"    *)
(* for any configured route path is classified into no route and its       *)
(* processing makes no download, copy, delete or invoke; a batch of such   *)
(* records leaves the bucket as it was.                                    *)
(***************************************************************************)
C8_Unrouted ==
    /\ \A i \in Records :
        (Started(i) /\ ~UnderRoute(tasks[i].key, "/")) =>
            /\ tasks[i].sub = 0
            /\ tasks[i].pc = "returned"
            /\ CallsOf(i) = <<>>
            /\ InvocationsOf(i) = <<>>
    /\ (\A i \in Records : Mismatched(i) \/ ~UnderRoute(KeyOf(i), "/")) =>
            objects = InitialObjects /\ calls = <<>> /\ invocations = <<>>

\* a key outside every route has been handled
C8_Witness ==
    /\ hpc = "done"
    /\ \E i \in Records : Started(i) /\ ~UnderRoute(tasks[i].key, "/")

(***************************************************************************)
(* C9  First match.  The route a key is classified into is the first       *)
(* entry of the routing table whose "<path>/" is a prefix of the key; no   *)
(* route is selected exactly when no entry is such a prefix.               *)
(***************************************************************************)
C9_FirstMatch ==
    \A i \in Records :
        Started(i) =>
            LET k == tasks[i].key
                subs == config.subdirectories
                s == tasks[i].sub
            IN  IF s = 0
                THEN \A r \in 1..Len(subs) : ~StartsWith(k, subs[r].path \o "/")
                ELSE /\ s \in 1..Len(subs)
                     /\ StartsWith(k, subs[s].path \o "/")
                     /\ \A r \in 1..(s - 1) : ~StartsWith(k, subs[r].path \o "/")

\* a key under two route paths has been classified into the one declared first
C9_Witness ==
    \E i \in Records :
        /\ Started(i)
        /\ tasks[i].sub # 0
        /\ \E r \in (tasks[i].sub + 1)..Len(config.subdirectories) :
            StartsWith(tasks[i].key, config.subdirectories[r].path \o "/")

\* the processing of record i is under way
InFlight(i) == tasks[i].pc \notin {"idle", "returned", "thrown"}

(***************************************************************************)
(* C10  Sequential processing.  Only the record the handler is awaiting    *)
(* can be under way; the records before it have ended, the records after   *)
(* it have not begun; the calls are made in the order of the records.      *)
(***************************************************************************)
C10_Sequential ==
    /\ \A i \in Records :
        /\ InFlight(i) => (i = idx /\ hpc = "await")
        /\ i > idx => (tasks[i].pc = "idle" /\ \A n \in DOMAIN calls : calls[n].rec # i)
        /\ (i = idx /\ hpc = "loop") => tasks[i].pc = "idle"
    /\ \A n \in 1..(Len(calls) - 1) : calls[n].rec <= calls[n + 1].rec
    /\ \A n \in 1..(Len(processed) - 1) : processed[n] < processed[n + 1]

\* the second record is under way after the first one made its calls
C10_Witness ==
    /\ Len(event) = 2
    /\ InFlight(2)
    /\ CallsOf(1) # <<>>
    /\ Settled(tasks[1])

\* the call c of record i is the copy of moveToErrorsSubfolder
ErrorCopy(i, c) == c.op = "copy" /\ tasks[i].reason # "" /\ c.dst = tasks[i].newKey

\* the n-th call of record i is a step of renameObject (not of the move to the errors path)
NormalizeStep(i, n) ==
    LET c == CallsOf(i) IN
    \/ c[n].op = "copy" /\ ~ErrorCopy(i, c[n])
    \/ c[n].op = "delete" /\ n > 1 /\ c[n - 1].op = "copy" /\ ~ErrorCopy(i, c[n - 1])

\* a copy or delete step of the relocation of record i failed
RelocationFailed(i) ==
    LET c == CallsOf(i) IN
    \E n \in DOMAIN c : c[n].out = "throw" /\ NormalizeStep(i, n)

(***************************************************************************)
(* C11  Relocation failure.  When the copy or the delete of a normalize    *)
(* relocation fails, that call is the last one made for the record: its    *)
(* processing returns, no invocation is requested or accepted for it, the  *)
(* handler does not raise, and every later record of the configured bucket *)
(* is still handed to the processor.                                       *)
(***************************************************************************)
C11_RelocationFailure ==
    \A i \in Records :
        LET c == CallsOf(i) IN
        \A n \in DOMAIN c :
            (c[n].out = "throw" /\ NormalizeStep(i, n)) =>
                /\ n = Len(c)
                /\ tasks[i].pc = "returned"
                /\ InvocationsOf(i) = <<>>
                /\ hpc # "raised"
                /\ hpc = "done" =>
                    \A j \in Records :
                        (j > i /\ ~Mismatched(j)) =>
                            Occurrences(processed, j) = 1 /\ Settled(tasks[j])

\* the copy of the first record failed, and the batch went on to the second, whose delete failed
C11_Witness ==
    /\ hpc = "done"
    /\ Len(event) = 2
    /\ RelocationFailed(1) /\ CallsOf(1)[Len(CallsOf(1))].op = "copy"
    /\ RelocationFailed(2) /\ CallsOf(2)[Len(CallsOf(2))].op = "delete"

\* the invocation request of record i failed
DispatchFailed(i) ==
    \E n \in DOMAIN calls : calls[n].rec = i /\ calls[n].op = "invoke" /\ calls[n].out = "throw"

\* console.error lines of record i whose text begins with prefix
LoggedWith(i, prefix) ==
    SelectSeq(consoleErrors, LAMBDA e : e.rec = i /\ StartsWith(e.text, prefix))

(***************************************************************************)
(* C12  Dispatch submission failure.  When the InvokeCommand of a record   *)
(* fails, the dispatcher logs the error and throws it: the record's        *)
(* processing ends thrown, with no further call and no accepted            *)
(* invocation; the handler catches it, logs "Error processing record:"     *)
(* once with that error, and does not raise; the records after it are      *)
(* still handled, and nothing is undone: an object stays at the processed  *)
(* key and the original key stays removed.                                 *)
(***************************************************************************)
C12_DispatchFailure ==
    \A i \in Records :
        DispatchFailed(i) =>
            /\ tasks[i].pc = "thrown"
            /\ CallsOf(i)[Len(CallsOf(i))].op = "invoke"
            /\ InvocationsOf(i) = <<>>
            /\ Len(LoggedWith(i, "Error invoking target Lambda")) = 1
            /\ LoggedWith(i, "Error invoking target Lambda")[1].error = SdkError
            /\ hpc # "raised"
            /\ Visited(i) =>
                /\ Len(ErrorsOf(i)) = 1
                /\ ErrorsOf(i)[1].error = SdkError
            /\ ~Visited(i) => ErrorsOf(i) = <<>>
            /\ hpc = "done" =>
                \A j \in Records :
                    (j > i /\ ~Mismatched(j)) =>
                        Occurrences(processed, j) = 1 /\ Settled(tasks[j])
            /\ tasks[i].newKey \in DOMAIN objects
            /\ tasks[i].key \notin DOMAIN objects

\* the dispatch of the first record failed and the second record was relocated and dispatched
C12_Witness ==
    /\ hpc = "done"
    /\ Len(event) = 2
    /\ DispatchFailed(1)
    /\ Len(InvocationsOf(2)) = 1

\* record i is routed and its key does not pass for already processed
Fresh(i) == Started(i) /\ tasks[i].sub # 0 /\ ~Skipped(tasks[i].key)

\* the n-th call of record i is the first copy of the normalize relocation, from the arrival's key
RelocationAt(i, n) ==
    LET c == CallsOf(i) IN
    /\ n \in DOMAIN c
    /\ c[n].op = "copy"
    /\ c[n].src = tasks[i].key
    /\ ~ErrorCopy(i, c[n])

\* the download of record i returned content that getObjectContent's caller takes for content
Retrieved(i) == Downloaded(i) /\ BodyOf(tasks[i].key) # ""

(***************************************************************************)
(* C13  Validation is opt-in, relocation is not.  A record is downloaded   *)
(* (and can be moved to the errors path) only on a route whose             *)
(* validateArrivals is true, and there the download is its first call.  On *)
(* a route without validation the first call of a fresh routed arrival is  *)
(* the copy of the relocation; on a validating route the relocation        *)
(* follows the download whenever content was retrieved (a body that is not *)
(* empty) and not rejected.                                                *)
(***************************************************************************)
C13_ValidationOptIn ==
    \A i \in Records :
        LET c == CallsOf(i)
            validating == Validating(i)
            fresh == Fresh(i)
        IN
        /\ (\E n \in DOMAIN c : c[n].op = "get" \/ ErrorCopy(i, c[n])) => validating
        /\ tasks[i].pc \in {"get", "errCopy", "errDelete"} => validating
        /\ (fresh /\ validating) =>
              IF c = <<>> THEN tasks[i].pc = "get" ELSE c[1].op = "get"
        /\ (fresh /\ ~validating) =>
              IF c = <<>> THEN tasks[i].pc = "copy" ELSE RelocationAt(i, 1)
        /\ (fresh /\ validating /\ tasks[i].reason = "" /\ Retrieved(i)) =>
              IF Len(c) = 1 THEN tasks[i].pc = "copy" ELSE RelocationAt(i, 2)

\* an arrival was relocated without a download on one route, and after a download on another
C13_Witness ==
    /\ Len(event) = 2
    /\ \E i, j \in Records :
        /\ Fresh(i) /\ ~Validating(i) /\ RelocationAt(i, 1) /\ CallsOf(i)[1].out = "ok"
        /\ Fresh(j) /\ Validating(j) /\ RelocationAt(j, 2) /\ CallsOf(j)[2].out = "ok"

(***************************************************************************)
(* C14  No retries.  A call that failed (a download that threw or came     *)
(* back without a body, a copy, a delete or an invocation that threw) is   *)
(* the last call made for its record, so no failed call is issued again;   *)
(* no record is handed to the processor twice, and a record that has       *)
(* settled is past for the handler.                                        *)
(***************************************************************************)
C14_NoRetries ==
    /\ \A i \in Records :
        LET c == CallsOf(i) IN
        /\ \A n \in DOMAIN c : c[n].out # "ok" => n = Len(c)
        /\ \A m \in DOMAIN c :
            c[m].out # "ok" =>
                \A n \in DOMAIN c :
                    m < n => <<c[m].op, c[m].src, c[m].dst>> # <<c[n].op, c[n].src, c[n].dst>>
        /\ Occurrences(processed, i) <= 1
        /\ Len(ErrorsOf(i)) <= 1
        /\ Visited(i) => ~InFlight(i)
    /\ Len(processed) <= Len(event)

\* the handler has returned after a failed call in each of two records
C14_Witness ==
    /\ hpc = "done"
    /\ Len(event) = 2
    /\ tasks[1].pc = "thrown"
    /\ \E n \in DOMAIN CallsOf(2) : CallsOf(2)[n].out = "throw"

(***************************************************************************)
(* C15  The routing table handed to the deployed function carries the      *)
(* validateArrivals of the context: for every subdirectory the value in    *)
(* BUCKET_CONFIG equals the value in the context's BUCKET, so that a fresh *)
(* arrival on a route the context marks for validation is downloaded       *)
(* before anything else is done with it.                                   *)
(***************************************************************************)
C15_ValidateArrivalsCarried ==
    context # <<>> =>
        /\ \A s \in DOMAIN config.subdirectories :
            ValidateArrivals(config.subdirectories[s])
                = ValidateArrivals(context[1].BUCKET.subdirectories[s])
        /\ \A i \in Records :
            (Fresh(i) /\ ValidateArrivals(context[1].BUCKET.subdirectories[tasks[i].sub])) =>
                IF CallsOf(i) = <<>> THEN tasks[i].pc = "get" ELSE CallsOf(i)[1].op = "get"

(***************************************************************************)
(* C16  Fire and forget.  The dispatcher waits for the acceptance of the   *)
(* request only: once a request of a record is accepted the record's       *)
(* processing has returned, whether the consumer has run or not and        *)
(* whatever its result; a step of a consumer changes nothing the handler   *)
(* reads or writes, and whenever the awaited record has settled the        *)
(* handler can go on.                                                      *)
(***************************************************************************)
C16_FireAndForget ==
    /\ [](\A n \in DOMAIN invocations : tasks[invocations[n].rec].pc = "returned")
    /\ []((hpc = "await" /\ Settled(tasks[idx])) => ENABLED HandlerResume)
    /\ [][consumer' # consumer /\ Len(consumer') = Len(consumer) =>
            UNCHANGED <<objects, clock, idx, hpc, tasks, calls, consoleErrors,
                        processed, invocations>>]_vars

\* the handler has returned while the consumer of the first record failed and that of the second has not run
C16_Witness ==
    /\ hpc = "done"
    /\ consumer = <<"failed", "queued">>
    /\ invocations[1].rec = 1 /\ invocations[2].rec = 2

\* the body is a JSON text: JSON.parse does not throw on it
WellFormed(body) == body \in JsonTexts

\* record i was moved, or is being moved, to the errors path for invalid JSON
RejectedInvalidJson(i) == tasks[i].reason = "Invalid JSON format"

(***************************************************************************)
(* C17  Syntax check.  On a validating route a downloaded object is        *)
(* rejected with the invalid-JSON reason exactly when its body is not a    *)
(* JSON text: a body that cannot be parsed, the empty body included, is    *)
(* moved to the errors path, and a body that is well-formed JSON, the      *)
(* values null, false, 0 and "" included, is not.                          *)
(***************************************************************************)
C17_SyntaxCheck ==
    \A i \in Records :
        (Fresh(i) /\ Validating(i) /\ Downloaded(i)) =>
            (RejectedInvalidJson(i) <=> ~WellFormed(BodyOf(tasks[i].key)))

\* the calls of the current run of the handler
RunCalls == SelectSeq(calls, LAMBDA c : c.run = delivered)

\* t has the form of Date.prototype.toISOString: YYYY-MM-DDTHH:mm:ss.sssZ
IsIsoTimestamp(t) ==
    /\ Len(t) = 24
    /\ \A i \in {1, 2, 3, 4, 6, 7, 9, 10, 12, 13, 15, 16, 18, 19, 21, 22, 23} : IsDigit(Ch(t, i))
    /\ Ch(t, 5) = "-" /\ Ch(t, 8) = "-" /\ Ch(t, 11) = "T"
    /\ Ch(t, 14) = ":" /\ Ch(t, 17) = ":" /\ Ch(t, 20) = "." /\ Ch(t, 24) = "Z"

\* k is "<path>/errors/invalid-json-<ISO timestamp>.json"
IsErrorKey(k, path) ==
    LET head == path \o "/errors/invalid-json-" IN
    /\ StartsWith(k, head)
    /\ EndsWith(k, ".json")
    /\ IsIsoTimestamp(SubSeq(k, Len(head) + 1, Len(k) - 5))

\* the tag set is error-reason=<value>, the value URL-encoded and decoding to reason
IsErrorTagging(tagging, reason) ==
    /\ StartsWith(tagging, "error-reason=")
    /\ ~Includes(tagging, " ")
    /\ DecodeURIComponent(SubSeq(tagging, 14, Len(tagging))) = reason

HandlesOwnFinalCopy ==
    /\ delivered > 0
    /\ Started(1)
    /\ Created[delivered].dst # RenameToJsonExtensionKey(Created[delivered].src)

(***************************************************************************)
(* C19  Quiescence.  After one upload, with every notification of the      *)
(* processor's own copies handled in turn, the notification of a processed *)
(* key or of an error key is skipped with no call, and the upload brings   *)
(* about at most one dispatch.                                             *)
(***************************************************************************)
C19_Quiescence ==
    /\ HandlesOwnFinalCopy => (tasks[1].pc = "returned" /\ RunCalls = <<>>)
    /\ Len(invocations) <= 1

\* the n-th call is the successful copy of a relocation to a date-based key whose delete failed
HalfRenamedAt(n) ==
    /\ n \in DOMAIN calls /\ n + 1 \in DOMAIN calls
    /\ calls[n].op = "copy" /\ calls[n].out = "ok"
    /\ calls[n].dst # RenameToJsonExtensionKey(calls[n].src)
    /\ ~Includes(calls[n].dst, "/errors/")
    /\ calls[n + 1].op = "delete" /\ calls[n + 1].out = "throw"
    /\ calls[n + 1].run = calls[n].run

\* position in calls of the copy that created the object whose notification is being handled
CreatedAt(d) == CHOOSE n \in DOMAIN calls :
    /\ calls[n].op = "copy" /\ calls[n].out = "ok"
    /\ Len(SelectSeq(SubSeq(calls, 1, n), LAMBDA c : c.op = "copy" /\ c.out = "ok")) = d

(***************************************************************************)
(* C20  Non-atomic rename.  When the delete of a relocation to the         *)
(* date-based key fails after its copy succeeded, the record's processing  *)
(* returns with the failure logged and no invocation requested, the object *)
(* is at the old and at the new key, and the notification of the new key   *)
(* is skipped as already processed, with no call.                          *)
(***************************************************************************)
C20_NonAtomicRename ==
    /\ (Len(calls) >= 2 /\ HalfRenamedAt(Len(calls) - 1) /\ calls[Len(calls)].run = delivered
            /\ Started(1)) =>
        /\ tasks[1].pc = "returned"
        /\ tasks[1].oldKey \in DOMAIN objects
        /\ tasks[1].newKey \in DOMAIN objects
        /\ objects[tasks[1].newKey].body = objects[tasks[1].oldKey].body
        /\ \A n \in DOMAIN RunCalls : RunCalls[n].op # "invoke"
        /\ \E e \in DOMAIN consoleErrors :
            consoleErrors[e].text = "Failed to rename object to date-based filename"
    /\ (delivered > 0 /\ HalfRenamedAt(CreatedAt(delivered)) /\ Started(1)) =>
        /\ tasks[1].pc = "returned"
        /\ RunCalls = <<>>

\* the invoke calls of record i: positions in the list of its calls
InvokesOf(c) == {n \in DOMAIN c : c[n].op = "invoke"}

(***************************************************************************)
(* C21  Dispatch after relocation.  For every record at most one           *)
(* InvokeCommand is submitted, and it is submitted only after the copy to  *)
(* the final processed key and the delete of the previous key have both    *)
(* succeeded, as the two calls right before it; the key it names is the    *)
(* destination of that completed copy (the date-based key, not the         *)
(* intermediate .json key), and so does the payload of every accepted      *)
(* request.                                                                *)
(***************************************************************************)
C21_DispatchAfterRelocation ==
    \A i \in Records :
        LET c == CallsOf(i) IN
        /\ Cardinality(InvokesOf(c)) <= 1
        /\ Len(InvocationsOf(i)) <= Cardinality(InvokesOf(c))
        /\ \A n \in InvokesOf(c) :
            /\ n >= 3
            /\ c[n - 2].op = "copy" /\ c[n - 2].out = "ok"
            /\ c[n - 1].op = "delete" /\ c[n - 1].out = "ok"
            /\ c[n - 1].src = c[n - 2].src
            /\ c[n - 2].dst = tasks[i].newKey
            /\ c[n - 2].dst # RenameToJsonExtensionKey(c[n - 2].src)
            /\ c[n].src = c[n - 2].dst
            /\ \A v \in DOMAIN InvocationsOf(i) : InvocationsOf(i)[v].Payload.key = c[n - 2].dst
        /\ tasks[i].pc = "invoke" =>
            /\ Len(c) >= 2
            /\ c[Len(c) - 1].op = "copy" /\ c[Len(c) - 1].out = "ok"
            /\ c[Len(c) - 1].dst = tasks[i].newKey
            /\ c[Len(c)].op = "delete" /\ c[Len(c)].out = "ok"

\* one record was dispatched after its two renames, and another whose delete failed was not
C21_Witness ==
    /\ hpc = "done"
    /\ Len(event) = 2
    /\ Len(CallsOf(1)) = 5 /\ Len(InvocationsOf(1)) = 1
    /\ Len(CallsOf(2)) = 2 /\ CallsOf(2)[2].out = "throw" /\ InvocationsOf(2) = <<>>

\* the route the arrival of record i is classified into: the first entry of the routing table
\* whose path, followed by "/", is a prefix of the arrival's key
RouteOf(i) == config.subdirectories[FindFrom(config.subdirectories, KeyOf(i), 1)]

(***************************************************************************)
(* C22  Dispatch to the route's consumer.  Every InvokeCommand, accepted   *)
(* or not, is addressed to the consumer configured for the route that the  *)
(* arrival's key was classified into and to no other route's consumer, and *)
(* the key it carries lies under that route's path.                        *)
(***************************************************************************)
C22_RouteConsumer ==
    /\ \A n \in DOMAIN calls :
        calls[n].op = "invoke" =>
            LET i == calls[n].rec IN
            /\ FindFrom(config.subdirectories, KeyOf(i), 1) # 0
            /\ calls[n].dst = RouteOf(i).targetLambdaArn
            /\ \A r \in DOMAIN config.subdirectories :
                config.subdirectories[r].path # RouteOf(i).path =>
                    calls[n].dst # config.subdirectories[r].targetLambdaArn
            /\ StartsWith(calls[n].src, RouteOf(i).path \o "/")
    /\ \A v \in DOMAIN invocations :
        LET i == invocations[v].rec IN
        /\ invocations[v].FunctionName = RouteOf(i).targetLambdaArn
        /\ StartsWith(invocations[v].Payload.key, RouteOf(i).path \o "/")
        /\ invocations[v].Payload.bucket = event[i].bucket
        /\ invocations[v].Payload.s3Path
              = "s3://" \o event[i].bucket \o "/" \o invocations[v].Payload.key

\* two arrivals of one batch were dispatched, each to the consumer of its own route
C22_Witness ==
    /\ hpc = "done"
    /\ Len(invocations) = 2
    /\ invocations[1].rec = 1 /\ invocations[2].rec = 2
    /\ invocations[1].FunctionName # invocations[2].FunctionName
    /\ StartsWith(KeyOf(1), "up/in/")
    /\ invocations[1].FunctionName = "arn:up"

\* the n-th call is a completed copy made for record i's arrival
CopiedAt(n) == calls[n].op = "copy" /\ calls[n].out = "ok"

(***************************************************************************)
(* C23  Distinct processed keys.  The copies made for distinct arrivals    *)
(* (relocations to a processed key and error moves) go to distinct keys,   *)
(* so that no copy overwrites an object an earlier relocation created,     *)
(* also when two records are processed at the same timestamp value.        *)
(***************************************************************************)
C23_DistinctKeys ==
    \A m, n \in DOMAIN calls :
        (/\ m < n
         /\ CopiedAt(m) /\ CopiedAt(n)
         /\ calls[m].rec # calls[n].rec
         /\ KeyOf(calls[m].rec) # KeyOf(calls[n].rec))
        => calls[m].dst # calls[n].dst

\* the upload of the run lacks the .json extension and its intermediate object's notification
\* is being handled, or has been handled, by the second invocation
RacedUpload ==
    /\ Len(event) = 2
    /\ ~EndsWith(KeyOf(1), ".json")
    /\ KeyOf(2) = RenameToJsonExtensionKey(KeyOf(1))

(***************************************************************************)
(* C24  One dispatch per upload without extension.  An upload whose key    *)
(* lacks the .json extension brings about at most one InvokeCommand        *)
(* (submitted, hence also at most one accepted), however the steps of the  *)
(* invocation handling the notification of the intermediate "<key>.json"   *)
(* object interleave with the steps of the first invocation.               *)
(***************************************************************************)
C24_SingleDispatch ==
    RacedUpload =>
        /\ Cardinality({n \in DOMAIN calls : calls[n].op = "invoke"}) <= 1
        /\ Len(invocations) <= 1

\* the upload keys that do not end in .json
BareKeys == {k \in UploadKeys : ~EndsWith(k, ".json")}

(***************************************************************************)
(* C25  Extension normalisation.  For a fresh routed arrival whose key k   *)
(* does not end in .json, every relocation copy from k goes to "k.json",   *)
(* and the copy to the date-based key is made from "k.json" right after    *)
(* the copy to "k.json" and the delete of k have both succeeded.  When a   *)
(* step of the extension rename fails it is the record's last call: no     *)
(* second rename, no invocation.  When the delete of "k.json" has          *)
(* succeeded, no object is at k or at "k.json".                            *)
(***************************************************************************)
C25_ExtensionNormalisation ==
    \A i \in Records :
        (tasks[i].key \in BareKeys /\ Fresh(i)) =>
            LET c == CallsOf(i)
                k == tasks[i].key
                kj == RenameToJsonExtensionKey(tasks[i].key)
            IN
            /\ tasks[i].pc = "invoke" => Len(c) >= 4
            /\ \A n \in DOMAIN c :
                /\ (c[n].op = "copy" /\ ~ErrorCopy(i, c[n])) =>
                    IF c[n].src = k THEN c[n].dst = kj
                    ELSE /\ c[n].src = kj
                         /\ c[n].dst # kj
                         /\ c[n].dst = tasks[i].newKey
                         /\ n >= 3
                         /\ c[n - 2].op = "copy" /\ c[n - 2].src = k /\ c[n - 2].dst = kj
                         /\ c[n - 2].out = "ok"
                         /\ c[n - 1].op = "delete" /\ c[n - 1].src = k /\ c[n - 1].out = "ok"
                /\ (c[n].out = "throw" /\ c[n].op \in {"copy", "delete"} /\ c[n].src = k
                        /\ ~ErrorCopy(i, c[n])) =>
                    /\ n = Len(c)
                    /\ tasks[i].pc = "returned"
                    /\ InvocationsOf(i) = <<>>
                    /\ \A m \in DOMAIN c : c[m].src # kj
                /\ c[n].op = "invoke" => n >= 5
                /\ (c[n].op = "delete" /\ c[n].src = kj /\ c[n].out = "ok") =>
                    /\ k \notin DOMAIN objects
                    /\ kj \notin DOMAIN objects

\* the extension rename of the first record failed; the same upload, notified again, was renamed
\* twice and dispatched, and nothing is left at its key or at the intermediate key
C25_Witness ==
    /\ hpc = "done"
    /\ Len(event) = 2
    /\ KeyOf(1) \in BareKeys /\ KeyOf(2) = KeyOf(1)
    /\ Len(CallsOf(1)) = 1 /\ CallsOf(1)[1].out = "throw"
    /\ Len(CallsOf(2)) = 5 /\ Len(InvocationsOf(2)) = 1
    /\ KeyOf(1) \notin DOMAIN objects
    /\ RenameToJsonExtensionKey(KeyOf(1)) \notin DOMAIN objects

\* the n-th call of the list c is a download that gave no content: it threw, the response had
\* no Body, or the body was empty
Unretrieved(c, n) ==
    /\ c[n].op = "get"
    /\ c[n].out # "ok" \/ BodyOf(c[n].src) = ""

(***************************************************************************)
(* C26  Retrieval failure.  On a validating route, when the content of the *)
(* object cannot be retrieved (the download throws or the response has no  *)
(* body), the download is the only call made for the record: no error      *)
(* move, no relocation, no invocation; the processing returns without      *)
(* raising, and the record leaves the bucket as it was (a batch of that    *)
(* one record leaves it as it was uploaded).                               *)
(***************************************************************************)
C26_RetrievalFailure ==
    \A i \in Records :
        LET c == CallsOf(i) IN
        (c # <<>> /\ Unretrieved(c, 1)) =>
            /\ Validating(i)
            /\ Len(c) = 1
            /\ tasks[i].pc = "returned"
            /\ tasks[i].reason = ""
            /\ InvocationsOf(i) = <<>>
            /\ ErrorsOf(i) = <<>>
            /\ \E e \in DOMAIN consoleErrors :
                /\ consoleErrors[e].rec = i
                /\ consoleErrors[e].text = "Failed to retrieve object content for: " \o tasks[i].key
            /\ Len(event) = 1 => objects = InitialObjects

\* one download threw and one came back without a body; the bucket is as it was uploaded
C26_Witness ==
    /\ hpc = "done"
    /\ Len(event) = 2
    /\ Len(CallsOf(1)) = 1 /\ CallsOf(1)[1].op = "get" /\ CallsOf(1)[1].out = "throw"
    /\ Len(CallsOf(2)) = 1 /\ CallsOf(2)[1].op = "get" /\ CallsOf(2)[1].out = "nobody"
    /\ objects = InitialObjects

\* the last call made for record i is a step of its error move, and it failed
ErrorMoveFailed(i) ==
    LET c == CallsOf(i) IN
    /\ tasks[i].reason # ""
    /\ c # <<>>
    /\ c[Len(c)].op \in {"copy", "delete"}
    /\ c[Len(c)].out = "throw"

(***************************************************************************)
(* C27  Failure of the error move.  When the copy or the delete of an      *)
(* error move fails, the failure is logged and not raised: the processing  *)
(* of the record returns, nothing is caught by the handler, no invocation  *)
(* is submitted.  From the rejection to the end of the record's            *)
(* processing the rejected object is never without a copy: its content is  *)
(* at the original key, at the error key, or at both (at the original key  *)
(* when the copy failed, at both when the delete failed).                  *)
(***************************************************************************)
C27_ErrorMoveFailure ==
    \A i \in Records :
        tasks[i].reason # "" =>
            LET f == tasks[i]
                c == CallsOf(i)
                atKey == f.key \in DOMAIN objects /\ objects[f.key].body = BodyOf(f.key)
                atErrorKey == f.newKey \in DOMAIN objects
                                /\ objects[f.newKey].body = BodyOf(f.key)
            IN
            /\ (hpc = "await" /\ idx = i) =>
                /\ atKey \/ atErrorKey
                /\ f.pc = "errCopy" => atKey
                /\ f.pc = "errDelete" => atKey /\ atErrorKey
            /\ \A n \in DOMAIN c : c[n].op # "invoke"
            /\ ErrorMoveFailed(i) =>
                /\ f.pc = "returned"
                /\ ErrorsOf(i) = <<>>
                /\ hpc # "raised"
                /\ InvocationsOf(i) = <<>>
                /\ consoleErrors # <<>>
                /\ \E e \in DOMAIN consoleErrors :
                    /\ consoleErrors[e].rec = i
                    /\ consoleErrors[e].text = "Error moving " \o f.key \o " to errors subfolder:"
                    /\ consoleErrors[e].error = SdkError
                /\ (hpc = "await" /\ idx = i /\ c[Len(c)].op = "copy") => atKey
                /\ (hpc = "await" /\ idx = i /\ c[Len(c)].op = "delete") => atKey /\ atErrorKey

\* the error copy of the first record failed and the error delete of the second one failed;
\* both rejected objects are still at their keys
C27_Witness ==
    /\ hpc = "done"
    /\ Len(event) = 2
    /\ KeyOf(1) # KeyOf(2)
    /\ ErrorMoveFailed(1) /\ CallsOf(1)[Len(CallsOf(1))].op = "copy"
    /\ ErrorMoveFailed(2) /\ CallsOf(2)[Len(CallsOf(2))].op = "delete"
    /\ KeyOf(1) \in DOMAIN objects
    /\ KeyOf(2) \in DOMAIN objects /\ tasks[2].newKey \in DOMAIN objects

\* the name of the bucket the stack creates for the deployment context
DeployedBucket == GetBucketName(context[1])

(***************************************************************************)
(* C28  Bucket name of the runtime configuration.  In a function deployed  *)
(* from a context, the name in BUCKET_CONFIG is the name of the bucket the *)
(* stack creates, getBucketName(context); hence a notification from that   *)
(* bucket passes the origin check: once visited, its record has been       *)
(* handed to the processor and no mismatch has been logged for it.         *)
(***************************************************************************)
C28_RuntimeBucketName ==
    context # <<>> =>
        /\ config.name = <<DeployedBucket>>
        /\ \A i \in Records :
            (event[i].bucket = DeployedBucket /\ Visited(i)) =>
                /\ Occurrences(processed, i) = 1
                /\ ErrorsOf(i) = <<>> \/ tasks[i].pc = "thrown"

\* the body parses to a value of the shape validateJsonStructure is documented to expect: an
\* array, or an object that holds the data under a wrapper property
ExpectedShape(body) == body \in {"[]", "{\"rawData\":[]}"}

(***************************************************************************)
(* C29  Structure check.  On a validating route, a retrieved body that     *)
(* parses to a truthy value not of the expected shape is rejected with the *)
(* reason "Invalid JSON structure": the record is moved to the errors path *)
(* and not dispatched; and validateJsonStructure rejects at least one      *)
(* parsed value.                                                           *)
(***************************************************************************)
C29_StructureCheck ==
    /\ \E t \in JsonTexts : ~ValidateJsonStructure(JsonParse(t))
    /\ \A i \in Records :
        (/\ Fresh(i) /\ Validating(i) /\ Retrieved(i)
         /\ WellFormed(BodyOf(tasks[i].key))
         /\ JsonParse(BodyOf(tasks[i].key)).truthy
         /\ ~ExpectedShape(BodyOf(tasks[i].key)))
        => /\ tasks[i].reason = "Invalid JSON structure"
           /\ InvocationsOf(i) = <<>>
           /\ \A n \in DOMAIN CallsOf(i) : CallsOf(i)[n].op # "invoke"

(***************************************************************************)
(* C30  Exactness of the already-processed check.  For every record handed *)
(* to the processor whose key lies under a configured route, the check is  *)
(* true if and only if the filename matches the processed-naming pattern   *)
(* or the key lies under "<route path>/errors/" of a configured route; a   *)
(* record for which neither holds is not skipped: when its processing has  *)
(* returned, it has made at least one S3 call.                             *)
(***************************************************************************)
C30_ExactSkip ==
    \A i \in Records :
        (Started(i) /\ tasks[i].sub # 0)
        => LET k == tasks[i].key
               marked == Patterned(k) \/ UnderRoute(k, "/errors/")
           IN /\ Skipped(k) <=> marked
              /\ (~marked /\ tasks[i].pc = "returned") => CallsOf(i) # <<>>

====
